---- MODULE Spec2Model ----
(***************************************************************************)
(* Model of the experiment launcher of bells-and-whistles:                 *)
(*   src/bootstrap/factories.py          the assemblers                    *)
(*   src/bootstrap/launch_experiment.py  the launcher built on them        *)
(*   src/launch_experiment.py            the legacy launcher (inline)      *)
(*   src/test.py                         the test entry point (pre-calls)  *)
(*   src/dataset/base/                   the dataset base classes          *)
(* Python objects are records with a "kind" field; None is the record      *)
(* [kind |-> "None"].  Python strings that the code inspects (paths, file  *)
(* names) are sequences of character codes, wrapped as Str(s).             *)
(***************************************************************************)
EXTENDS Integers, Sequences, FiniteSets, TLC

\* ------------------------------------------------------------------ bounds
MaxSeed == 2
MaxEpochs == 2
MaxDim == 3
MaxFiles == 3
MaxTmax == 3

\* ------------------------------------------------------- Python primitives
None == [kind |-> "None"]
Str(s) == [kind |-> "str", s |-> s]
NoError == [type |-> "none", stage |-> "none"]
Error(type, stage) == [type |-> type, stage |-> stage]

\* str.endswith
endswith(s, suffix) ==
    /\ Len(s) >= Len(suffix)
    /\ SubSeq(s, Len(s) - Len(suffix) + 1, Len(s)) = suffix

\* str.startswith
startswith(s, prefix) ==
    /\ Len(s) >= Len(prefix)
    /\ SubSeq(s, 1, Len(prefix)) = prefix

\* str.__lt__: comparison by code point, a proper prefix is smaller
RECURSIVE StrLess(_, _)
StrLess(a, b) ==
    IF a = <<>> THEN b # <<>>
    ELSE IF b = <<>> THEN FALSE
    ELSE IF Head(a) # Head(b) THEN Head(a) < Head(b)
    ELSE StrLess(Tail(a), Tail(b))

\* sorted(list of distinct str): ascending
RECURSIVE sorted(_)
sorted(S) ==
    IF S = {} THEN <<>>
    ELSE LET least == CHOOSE x \in S : \A y \in S \ {x} : StrLess(x, y)
         IN  <<least>> \o sorted(S \ {least})

\* int ** int
RECURSIVE Pow(_, _)
Pow(b, e) == IF e = 0 THEN 1 ELSE b * Pow(b, e - 1)

\* ------------------------------------------------------------ string data
SLASH == <<47>>                                 \* "/"
CKPT == <<46, 99, 107, 112, 116>>               \* ".ckpt"
LAST == <<108, 97, 115, 116>>                   \* "last"
RUNS == <<114, 117, 110, 115>>                  \* "runs"
OriginalCwd == <<47, 119>>                      \* "/w"
RunId == <<114>>                                \* "r"
RelCkpt == <<109>> \o CKPT                      \* "m.ckpt"
AbsCkpt == <<47, 109>> \o CKPT                  \* "/m.ckpt"
Name_a == <<97>> \o CKPT                        \* "a.ckpt"
Name_last == LAST \o CKPT                       \* "last.ckpt"
Name_z == <<122>> \o CKPT                       \* "z.ckpt"
Name_la == <<108, 97>> \o CKPT                  \* "la.ckpt"
Name_last2 == LAST \o <<50>> \o CKPT            \* "last2.ckpt"
Name_ztxt == <<122, 46, 116, 120, 116>>         \* "z.txt"
Name_ckpt == <<122, 99, 107, 112, 116>>         \* "zckpt"

\* ------------------------------------------------------------ file system
\* os.path.join of two components
join(a, b) == IF startswith(b, SLASH) THEN b ELSE a \o SLASH \o b

\* str(pathlib.Path(p)): trailing separators are dropped
RECURSIVE PathStr(_)
PathStr(p) ==
    IF Len(p) > 1 /\ endswith(p, SLASH) THEN PathStr(SubSeq(p, 1, Len(p) - 1))
    ELSE p

\* hydra.utils.to_absolute_path: an absolute path is kept, a relative one is
\* resolved against the original working directory
to_absolute_path(path) ==
    IF startswith(path, SLASH) THEN PathStr(path)
    ELSE PathStr(join(OriginalCwd, path))

\* os.path.exists
exists(files, path) == path \in files.files \/ path \in files.dirs

\* os.listdir of an existing directory: the names directly under it
listdir(files, dir) ==
    { SubSeq(p, Len(dir) + 2, Len(p)) :
        p \in { q \in files.files :
                  /\ startswith(q, dir \o SLASH)
                  /\ \A i \in (Len(dir) + 2)..Len(q) : <<q[i]>> # SLASH } }

\* ------------------------------------------------- deferred constructors
\* a partial whose bound keywords win over those of the call
MergeBoundWins(bound, given) ==
    [k \in (DOMAIN bound) \cup (DOMAIN given) |->
        IF k \in DOMAIN bound THEN bound[k] ELSE given[k]]

\* functools.partial.__call__: keywords = {**self.keywords, **fkeywords}
Merge(bound, given) ==
    [k \in (DOMAIN bound) \cup (DOMAIN given) |->
        IF k \in DOMAIN given THEN given[k] ELSE bound[k]]

\* one recorded call: a constructor invocation or a collaborator call
Call(op, pos, given, kw) == [op |-> op, pos |-> pos, given |-> given, kw |-> kw]

\* ------------------------------------------------------ checkpoint resolver
\* run_models with the "last" files kept in testing mode too
run_models_keep_last(files, load_from, training_mode) ==
    sorted({ f \in listdir(files, to_absolute_path(RUNS \o SLASH \o load_from \o SLASH)) :
               endswith(f, CKPT) })

\* the eligible checkpoint names of a run directory, sorted ascending
run_models(files, load_from, training_mode) ==
    sorted({ f \in listdir(files, to_absolute_path(RUNS \o SLASH \o load_from \o SLASH)) :
               /\ endswith(f, CKPT)
               /\ (IF ~training_mode THEN ~startswith(f, LAST) ELSE TRUE) })

\* the inline resolution with the existence test of a direct path left out
legacy_model_ckpt_path_unchecked(files, load_from, training_mode) ==
    IF load_from = None THEN [path |-> None, raised |-> NoError]
    ELSE IF endswith(load_from.s, CKPT)
    THEN [path |-> Str(to_absolute_path(load_from.s)), raised |-> NoError]
    ELSE IF to_absolute_path(RUNS \o SLASH \o load_from.s \o SLASH) \notin files.dirs
    THEN [path |-> None, raised |-> Error("FileNotFoundError", "load_model_ckpt")]
    ELSE LET models == run_models(files, load_from.s, training_mode)
         IN  IF Len(models) < 1
             THEN [path |-> None, raised |-> Error("ValueError", "load_model_ckpt")]
             ELSE [path |-> Str(to_absolute_path(
                                  join(join(RUNS, load_from.s), models[Len(models)]))),
                   raised |-> NoError]

\* the legacy launcher's inline resolution of run.load_from
legacy_model_ckpt_path(files, load_from, training_mode) ==
    IF load_from = None THEN [path |-> None, raised |-> NoError]
    ELSE IF endswith(load_from.s, CKPT)
    THEN LET model_ckpt_path == to_absolute_path(load_from.s)
         IN  IF ~exists(files, model_ckpt_path)
             THEN [path |-> None, raised |-> Error("ValueError", "load_model_ckpt")]
             ELSE [path |-> Str(model_ckpt_path), raised |-> NoError]
    ELSE IF to_absolute_path(RUNS \o SLASH \o load_from.s \o SLASH) \notin files.dirs
    THEN [path |-> None, raised |-> Error("FileNotFoundError", "load_model_ckpt")]
    ELSE LET models == run_models(files, load_from.s, training_mode)
         IN  IF Len(models) < 1
             THEN [path |-> None, raised |-> Error("ValueError", "load_model_ckpt")]
             ELSE [path |-> Str(to_absolute_path(
                                  join(join(RUNS, load_from.s), models[Len(models)]))),
                   raised |-> NoError]

\* utils.load_model_ckpt, called by the bootstrap launcher
load_model_ckpt(files, load_from, training_mode) ==
    IF load_from = None THEN [path |-> None, raised |-> NoError]
    ELSE IF endswith(load_from.s, CKPT)
    THEN IF ~exists(files, to_absolute_path(load_from.s))
         THEN [path |-> None, raised |-> Error("NotFoundError", "load_model_ckpt")]
         ELSE [path |-> Str(to_absolute_path(load_from.s)), raised |-> NoError]
    ELSE LET dir == to_absolute_path(join(RUNS, load_from.s))
             eligible == { f \in (IF dir \in files.dirs THEN listdir(files, dir) ELSE {}) :
                             /\ endswith(f, CKPT)
                             /\ (training_mode \/ ~startswith(f, LAST)) }
             ascending == sorted(eligible)
         IN  IF eligible = {}
             THEN [path |-> None, raised |-> Error("NotFoundError", "load_model_ckpt")]
             ELSE [path |-> Str(join(dir, ascending[Len(ascending)])), raised |-> NoError]

\* ---------------------------------------------------------------- datasets
\* what a dataset constructor call can do: succeed, raise in _load (before the
\* cache directory is made) or raise on the albumentations import (after it)
DatasetOutcomes == {"ok", "load_raises", "import_raises"}

\* Python values whose type the code can tell apart at run time
PyStr(v) == [t |-> "str", v |-> v]
PyBool(v) == [t |-> "bool", v |-> v]
PyInt(v) == [t |-> "int", v |-> v]

\* bool(x)
Truthy(x) ==
    IF x.t = "bool" THEN x.v
    ELSE IF x.t = "str" THEN x.v # ""
    ELSE x.v # 0

\* a == b: values of different types are unequal
PyEq(a, b) == a.t = b.t /\ a.v = b.v

\* a and b: a when a is falsy, else b
PyAnd(a, b) == IF Truthy(a) THEN b ELSE a

\* BaseDataset.__init__, its parameters in the order of its signature: the
\* arguments of _load and the attributes it sets
BaseDataset_init(dataset_root, augment, normalize, split, dataset_name, seed, debug, tiny) ==
    [load |-> [dataset_root |-> dataset_root, tiny |-> tiny, split |-> split, seed |-> seed],
     augment |-> PyAnd(augment, PyBool(PyEq(split, PyStr("train")))),
     normalize |-> normalize,
     dataset_name |-> dataset_name,
     debug |-> debug]

\* ImageDataset.__init__: the super().__init__ call, six arguments by
\* position and debug and tiny by keyword
ImageDataset_init(kw) ==
    LET arg(name, default) == IF name \in DOMAIN kw THEN kw[name] ELSE default
    IN  BaseDataset_init(PyStr(kw.dataset_root),
                         PyStr(kw.dataset_name),
                         PyBool(arg("augment", FALSE)),
                         PyBool(arg("normalize", FALSE)),
                         PyStr(kw.split),
                         PyInt(kw.seed),
                         PyBool(arg("debug", FALSE)),
                         PyBool(arg("tiny", FALSE)))

\* dataset_partial(**given): ImageDataset.__init__ under the merged keywords
DatasetCall(dataset_partial, given, outcome) ==
    LET kw == Merge(dataset_partial.keywords, given)
    IN  [call |-> Call("dataset", None, given, kw),
         inst |-> IF outcome = "ok"
                  THEN [kind |-> "dataset", kw |-> kw, base |-> ImageDataset_init(kw)]
                  ELSE None,
         raised |-> IF outcome = "ok" THEN NoError
                    ELSE IF outcome = "load_raises"
                    THEN Error("Exception", "make_datasets")
                    ELSE Error("ImportError", "make_datasets"),
         mutated |-> IF outcome = "load_raises" THEN {} ELSE {"cache_dir"}]

\* make_datasets that hands back the train dataset without building the val one
make_datasets_no_val(training_mode, seed, dataset_partial, outcomes) ==
    LET d == DatasetCall(dataset_partial,
                         IF training_mode THEN [split |-> "train", seed |-> seed]
                         ELSE [split |-> "test", augment |-> FALSE, seed |-> seed],
                         outcomes[1])
    IN  [ret |-> IF d.raised # NoError THEN <<None, None, None>>
                 ELSE IF training_mode THEN <<d.inst, None, None>>
                 ELSE <<None, None, d.inst>>,
         calls |-> <<d.call>>, raised |-> d.raised, mutated |-> d.mutated]

make_datasets(training_mode, seed, dataset_partial, outcomes) ==
    IF training_mode
    THEN LET t == DatasetCall(dataset_partial, [split |-> "train", seed |-> seed], outcomes[1])
             v == DatasetCall(dataset_partial, [split |-> "val", seed |-> seed], outcomes[2])
         IN  IF t.raised # NoError
             THEN [ret |-> <<None, None, None>>, calls |-> <<t.call>>,
                   raised |-> t.raised, mutated |-> t.mutated]
             ELSE IF v.raised # NoError
             THEN [ret |-> <<None, None, None>>, calls |-> <<t.call, v.call>>,
                   raised |-> v.raised, mutated |-> t.mutated \cup v.mutated]
             ELSE [ret |-> <<t.inst, v.inst, None>>, calls |-> <<t.call, v.call>>,
                   raised |-> NoError, mutated |-> t.mutated \cup v.mutated]
    ELSE LET e == DatasetCall(dataset_partial,
                              [split |-> "test", augment |-> FALSE, seed |-> seed],
                              outcomes[1])
         IN  IF e.raised # NoError
             THEN [ret |-> <<None, None, None>>, calls |-> <<e.call>>,
                   raised |-> e.raised, mutated |-> e.mutated]
             ELSE [ret |-> <<None, None, e.inst>>, calls |-> <<e.call>>,
                   raised |-> NoError, mutated |-> e.mutated]

\* ----------------------------------------------------------------- loaders
\* torch.utils.data.DataLoader's own defaults for the arguments modelled
LoaderDefaults == [shuffle |-> FALSE, drop_last |-> FALSE, generator |-> None]

\* data_loader_partial(dataset, **given)
LoaderCall(data_loader_partial, dataset_inst, given) ==
    LET kw == Merge(data_loader_partial.keywords, given)
    IN  [call |-> Call("data_loader", dataset_inst, given, kw),
         inst |-> [kind |-> "loader", dataset |-> dataset_inst,
                   kw |-> Merge(LoaderDefaults, kw)]]

\* torch.Generator() followed by manual_seed(seed)
Generator(seed) == [kind |-> "generator", seed |-> seed]

\* the loaders of one mode, built with no test on the datasets; val and test
\* are forced to shuffle=False, drop_last=False when forced is true
LoadersOf(data_loader_partial, train_ds, val_ds, test_ds, training_mode, generator, forced) ==
    LET plain == [generator |-> generator]
        fixed == IF forced THEN [generator |-> generator, shuffle |-> FALSE,
                                 drop_last |-> FALSE]
                 ELSE plain
        t == LoaderCall(data_loader_partial, train_ds, plain)
        v == LoaderCall(data_loader_partial, val_ds, fixed)
        e == LoaderCall(data_loader_partial, test_ds, fixed)
    IN  IF training_mode
        THEN [ret |-> <<t.inst, v.inst, None>>, calls |-> <<t.call, v.call>>]
        ELSE [ret |-> <<None, None, e.inst>>, calls |-> <<e.call>>]

\* make_dataloaders with the val and test loaders left to the bound policy
make_dataloaders_unforced(data_loader_partial, train_ds, val_ds, test_ds, training_mode, seed, reproducible) ==
    LET generator == IF reproducible THEN Generator(seed) ELSE None
        made == IF reproducible THEN <<Call("torch.Generator", None, <<>>, [seed |-> seed])>>
                ELSE <<>>
        built == LoadersOf(data_loader_partial, train_ds, val_ds, test_ds,
                           training_mode, generator, FALSE)
    IN  IF (training_mode /\ (train_ds = None \/ val_ds = None))
           \/ (~training_mode /\ test_ds = None)
        THEN [ret |-> <<None, None, None>>, calls |-> made,
              raised |-> Error("ValueError", "make_dataloaders")]
        ELSE [ret |-> built.ret, calls |-> made \o built.calls, raised |-> NoError]

\* make_dataloaders with "and" for "or" in the training-mode test
make_dataloaders_and(data_loader_partial, train_ds, val_ds, test_ds, training_mode, seed, reproducible) ==
    LET generator == IF reproducible THEN Generator(seed) ELSE None
        made == IF reproducible THEN <<Call("torch.Generator", None, <<>>, [seed |-> seed])>>
                ELSE <<>>
        built == LoadersOf(data_loader_partial, train_ds, val_ds, test_ds,
                           training_mode, generator, TRUE)
    IN  IF (training_mode /\ (train_ds = None /\ val_ds = None))
           \/ (~training_mode /\ test_ds = None)
        THEN [ret |-> <<None, None, None>>, calls |-> made,
              raised |-> Error("ValueError", "make_dataloaders")]
        ELSE [ret |-> built.ret, calls |-> made \o built.calls, raised |-> NoError]

\* make_dataloaders with a generator of its own made for each loader
make_dataloaders_own_generators(data_loader_partial, train_ds, val_ds, test_ds, training_mode, seed, reproducible) ==
    LET generator == IF reproducible THEN Generator(seed) ELSE None
        made == IF reproducible THEN <<Call("torch.Generator", None, <<>>, [seed |-> seed])>>
                ELSE <<>>
        built == LoadersOf(data_loader_partial, train_ds, val_ds, test_ds,
                           training_mode, generator, TRUE)
    IN  IF (training_mode /\ (train_ds = None \/ val_ds = None))
           \/ (~training_mode /\ test_ds = None)
        THEN [ret |-> <<None, None, None>>, calls |-> <<>>,
              raised |-> Error("ValueError", "make_dataloaders")]
        ELSE [ret |-> built.ret,
              calls |-> IF training_mode
                        THEN made \o <<built.calls[1]>> \o made \o <<built.calls[2]>>
                        ELSE made \o built.calls,
              raised |-> NoError]

make_dataloaders(data_loader_partial, train_ds, val_ds, test_ds, training_mode, seed, reproducible) ==
    LET generator == IF reproducible THEN Generator(seed) ELSE None
        made == IF reproducible THEN <<Call("torch.Generator", None, <<>>, [seed |-> seed])>>
                ELSE <<>>
    IN  IF training_mode
        THEN IF train_ds = None \/ val_ds = None
             THEN [ret |-> <<None, None, None>>, calls |-> made,
                   raised |-> Error("ValueError", "make_dataloaders")]
             ELSE LET t == LoaderCall(data_loader_partial, train_ds,
                                      [generator |-> generator])
                      v == LoaderCall(data_loader_partial, val_ds,
                                      [generator |-> generator, shuffle |-> FALSE,
                                       drop_last |-> FALSE])
                  IN  [ret |-> <<t.inst, v.inst, None>>,
                       calls |-> made \o <<t.call, v.call>>, raised |-> NoError]
        ELSE IF test_ds = None
             THEN [ret |-> <<None, None, None>>, calls |-> made,
                   raised |-> Error("ValueError", "make_dataloaders")]
             ELSE LET e == LoaderCall(data_loader_partial, test_ds,
                                      [generator |-> generator, shuffle |-> FALSE,
                                       drop_last |-> FALSE])
                  IN  [ret |-> <<None, None, e.inst>>,
                       calls |-> made \o <<e.call>>, raised |-> NoError]

\* ------------------------------------------------------------------- model
\* make_model with img_dim * 2 for img_dim ** 2
make_model_doubled(model_partial, dataset_partial) ==
    IF "img_dim" \notin DOMAIN dataset_partial.keywords
    THEN [inst |-> None, calls |-> <<>>, raised |-> Error("AttributeError", "make_model")]
    ELSE LET given == [encoder_input_dim |-> dataset_partial.keywords.img_dim * 2]
             kw == Merge(model_partial.keywords, given)
         IN  [inst |-> [kind |-> "model", kw |-> kw, device |-> "cpu", parallel |-> FALSE],
              calls |-> <<Call("model", None, given, kw)>>,
              raised |-> NoError]

make_model(model_partial, dataset_partial) ==
    IF "img_dim" \notin DOMAIN dataset_partial.keywords
    THEN [inst |-> None, calls |-> <<>>, raised |-> Error("AttributeError", "make_model")]
    ELSE LET given == [encoder_input_dim |-> Pow(dataset_partial.keywords.img_dim, 2)]
             kw == Merge(model_partial.keywords, given)
         IN  [inst |-> [kind |-> "model", kw |-> kw, device |-> "cpu", parallel |-> FALSE],
              calls |-> <<Call("model", None, given, kw)>>,
              raised |-> NoError]

\* wraps the model in TransparentDataParallel when there are several devices
parallelize_model(model_inst, device_count) ==
    IF device_count > 1 THEN [model_inst EXCEPT !.parallel = TRUE] ELSE model_inst

\* utils.to_cuda_: moves a module to the accelerator when there is one
to_cuda_(x, device_count) ==
    IF x = None THEN None
    ELSE [x EXCEPT !.device = IF device_count > 0 THEN "cuda" ELSE "cpu"]

\* ------------------------------------------------------------ optimization
\* optimizer_partial(model.parameters()): the optimizer holds the parameters
\* of the model as it is when the optimizer is built
make_optimizer(optimizer_partial, model_inst) ==
    [inst |-> [kind |-> "optimizer", kw |-> optimizer_partial.keywords, built_on |-> model_inst],
     calls |-> <<Call("optimizer", model_inst, <<>>, optimizer_partial.keywords)>>]

\* hasattr(scheduler, "T_max") in place of the isinstance test
hasattr_T_max(scheduler) == "T_max" \in DOMAIN scheduler.fields

\* isinstance(scheduler, torch.optim.lr_scheduler.CosineAnnealingLR)
isinstance_CosineAnnealingLR(scheduler) ==
    scheduler.type \in {"CosineAnnealingLR", "CosineAnnealingLRSubclass"}

make_scheduler(scheduler_partial, optimizer_inst, epochs) ==
    LET scheduler == [kind |-> "scheduler", type |-> scheduler_partial.target,
                      optimizer |-> optimizer_inst, fields |-> scheduler_partial.keywords]
    IN  [inst |-> IF isinstance_CosineAnnealingLR(scheduler)
                  THEN [scheduler EXCEPT !.fields = Merge(@, [T_max |-> epochs])]
                  ELSE scheduler,
         calls |-> <<Call("scheduler", optimizer_inst, <<>>, scheduler_partial.keywords)>>]

\* -------------------------------------------------------------------- loss
\* make_training_loss that builds the loss in either mode
make_training_loss_always(training_mode, training_loss_partial) ==
    [inst |-> [kind |-> "loss", kw |-> training_loss_partial.keywords, device |-> "cpu"],
     calls |-> <<Call("training_loss", None, <<>>, training_loss_partial.keywords)>>]

make_training_loss(training_mode, training_loss_partial) ==
    IF training_mode
    THEN [inst |-> [kind |-> "loss", kw |-> training_loss_partial.keywords, device |-> "cpu"],
          calls |-> <<Call("training_loss", None, <<>>, training_loss_partial.keywords)>>]
    ELSE [inst |-> None, calls |-> <<>>]

\* utils.seed_everything: seeds every source of randomness of the process
seed_everything(seed) == [seeded |-> TRUE, seed |-> seed]

\* =================================================================== state
VARIABLES
    launcher,            \* "bootstrap" (src/bootstrap) or "legacy" (src/launch_experiment.py)
    entry,               \* "test.py": through the entry point and its pre-calls;
                         \* "call": launch_experiment called directly;
                         \* the name of an assembler: that assembler called on its own
    run,                 \* the run descriptor (conf.experiment.RunConfig)
    REPRODUCIBLE,        \* project_conf.REPRODUCIBLE
    USE_WANDB,           \* project_conf.USE_WANDB
    device_count,        \* torch.cuda.device_count()
    files,               \* the file system: [files, dirs], sets of absolute paths
    dataset,             \* the dataset partial
    data_loader,         \* the loader partial
    scheduler,           \* the scheduler partial
    pc,                  \* the statement the launch is at
    calls,               \* every constructor and collaborator call so far, in order
    rng,                 \* the process-wide random state
    external,            \* what has been written outside the process
    model_inst, train_dataset, val_dataset, test_dataset,
    opt_inst, scheduler_inst, training_loss_inst,
    train_loader_inst, val_loader_inst, test_loader_inst,
    model_ckpt_path,
    driver,              \* the trainer or tester that was built and run
    err                  \* the exception that ended the launch

conf == <<launcher, entry, REPRODUCIBLE, USE_WANDB, device_count, files,
          dataset, data_loader, scheduler>>
datasets == <<train_dataset, val_dataset, test_dataset>>
loaders == <<train_loader_inst, val_loader_inst, test_loader_inst>>
vars == <<conf, run, pc, calls, rng, external, model_inst, datasets, opt_inst,
          scheduler_inst, training_loss_inst, loaders, model_ckpt_path, driver, err>>

\* the partials that the launch is given with nothing to choose in them
model == [target |-> "Model", keywords |-> [hidden_dim |-> 4]]
optimizer == [target |-> "Optimizer", keywords |-> [lr |-> 1]]
training_loss == [target |-> "TrainingLoss", keywords |-> [reduction |-> "mean"]]
trainer == [target |-> "BaseTrainer", keywords |-> <<>>]
tester == [target |-> "BaseTester", keywords |-> <<>>]
run_name == "run"

\* ------------------------------------------------------------------ inputs
LoadFroms == {None, Str(RelCkpt), Str(AbsCkpt), Str(RunId)}
RunConfigs(load_froms) ==
    [training_mode : BOOLEAN, seed : 1..MaxSeed, epochs : 1..MaxEpochs,
     load_from : load_froms,
     val_every : {1}, viz_every : {1}, viz_train_every : {1}, viz_num_samples : {1}]

DatasetBase == [dataset_root : {"data"}, dataset_name : {"ds"}]
WithImgDim(S, dims) == S \cup { Merge(kw, [img_dim |-> d]) : kw \in S, d \in dims }
WithAugment(S) == S \cup { Merge(kw, [augment |-> TRUE]) : kw \in S }
DatasetPartials(dims, optional) ==
    { [target |-> "Dataset", keywords |-> kw] :
        kw \in WithAugment(IF optional THEN WithImgDim(DatasetBase, dims)
                           ELSE WithImgDim(DatasetBase, dims) \ DatasetBase) }

WithShuffle(S) == S \cup { Merge(kw, [shuffle |-> b]) : kw \in S, b \in BOOLEAN }
WithDropLast(S) == S \cup { Merge(kw, [drop_last |-> b]) : kw \in S, b \in BOOLEAN }
LoaderPartials ==
    { [target |-> "DataLoader", keywords |-> kw] :
        kw \in WithDropLast(WithShuffle([batch_size : {2}])) }

SchedulerPartials ==
    { [target |-> t, keywords |-> [T_max |-> n]] :
        t \in {"CosineAnnealingLR", "CosineAnnealingLRSubclass", "OtherWithTmax"},
        n \in 1..MaxTmax }
    \cup { [target |-> "StepLR", keywords |-> [step_size |-> n]] : n \in 1..MaxTmax }

RunDir == to_absolute_path(join(RUNS, RunId))
NamePool == {Name_a, Name_last, Name_z, Name_la, Name_last2, Name_ztxt, Name_ckpt}
DirectFiles == {to_absolute_path(RelCkpt), AbsCkpt}
\* file systems: the direct checkpoint files may exist, the run directory may
\* exist and then holds one of the given sets of names
FileSystems(directSets, nameSets) ==
    { [files |-> direct \cup { join(RunDir, n) : n \in names }, dirs |-> {RunDir}] :
        direct \in directSets, names \in nameSets }
    \cup { [files |-> direct, dirs |-> {}] : direct \in directSets }

\* a launch reads the file system only at the paths that load_from names
CheckpointCases ==
    { [load_from |-> None, files |-> f] : f \in FileSystems({{}}, {}) }
    \cup { [load_from |-> Str(RelCkpt), files |-> f] :
             f \in FileSystems({{}, {to_absolute_path(RelCkpt)}}, {}) }
    \cup { [load_from |-> Str(AbsCkpt), files |-> f] :
             f \in FileSystems({{}, {AbsCkpt}}, {}) }
    \cup { [load_from |-> Str(RunId), files |-> f] :
             f \in FileSystems({{}}, {{}, {Name_last}, {Name_a, Name_last}}) }

NoInstances ==
    /\ model_inst = None
    /\ train_dataset = None /\ val_dataset = None /\ test_dataset = None
    /\ opt_inst = None /\ scheduler_inst = None /\ training_loss_inst = None
    /\ train_loader_inst = None /\ val_loader_inst = None /\ test_loader_inst = None
    /\ model_ckpt_path = None
    /\ driver = None

\* ----------------------------------------------------------------- control
\* the statements in the order of the spec's control flow: datasets, model,
\* device placement, optimizer and scheduler, loaders, checkpoint, driver
StagesDatasetsFirst(l) ==
    IF l = "bootstrap"
    THEN <<"make_datasets", "make_model", "parallelize_model", "make_optimizer",
           "make_scheduler", "make_training_loss", "make_dataloaders",
           "init_wandb", "load_model_ckpt", "run_driver">>
    ELSE <<"make_datasets", "make_model", "parallelize_model", "make_optimizer",
           "make_scheduler", "make_training_loss", "to_cuda", "init_wandb",
           "make_dataloaders", "load_model_ckpt", "run_driver">>

\* the statements of launch_experiment, in the order of the source
Stages(l) ==
    IF l = "bootstrap"
    THEN <<"make_model", "make_datasets", "make_optimizer", "make_scheduler",
           "parallelize_model", "make_training_loss", "make_dataloaders",
           "init_wandb", "load_model_ckpt", "run_driver">>
    ELSE <<"make_model", "make_datasets", "make_optimizer", "make_scheduler",
           "parallelize_model", "make_training_loss", "to_cuda", "init_wandb",
           "make_dataloaders", "load_model_ckpt", "run_driver">>

IndexOf(seq, x) == CHOOSE i \in 1..Len(seq) : seq[i] = x

\* the statement after p; an assembler called on its own returns
After(l, e, p) ==
    LET i == IndexOf(Stages(l), p)
    IN  IF e \notin {"test.py", "call"} \/ i = Len(Stages(l)) THEN "done"
        ELSE Stages(l)[i + 1]

\* an exception unwinds the launch, otherwise control reaches the next statement
Continue(raised) ==
    /\ err' = raised
    /\ pc' = IF raised = NoError THEN After(launcher, entry, pc) ELSE "aborted"

\* the state a launch starts in
Init ==
    /\ launcher \in {"bootstrap", "legacy"}
    /\ entry \in IF launcher = "bootstrap" THEN {"test.py", "call"} ELSE {"call"}
    /\ \E c \in CheckpointCases :
         /\ run \in RunConfigs({c.load_from})
         /\ files = c.files
    /\ REPRODUCIBLE \in BOOLEAN
    /\ USE_WANDB \in BOOLEAN
    /\ device_count \in {1, 2}
    /\ dataset \in DatasetPartials({MaxDim}, TRUE)
    /\ data_loader \in {[target |-> "DataLoader", keywords |-> [batch_size |-> 2, shuffle |-> TRUE]]}
    /\ scheduler \in {[target |-> "CosineAnnealingLR", keywords |-> [T_max |-> MaxTmax]]}
    /\ pc = IF entry = "test.py" THEN "pre_call_seed" ELSE Stages(launcher)[1]
    /\ calls = <<>>
    /\ rng = [seeded |-> FALSE, seed |-> 0]
    /\ external = {}
    /\ NoInstances
    /\ err = NoError

\* ----------------------------------------------------------------- actions
\* the first pre-call with the seeding left out
PreCallSeedNever ==
    /\ pc = "pre_call_seed"
    /\ pc' = "pre_call_set_test_mode"
    /\ UNCHANGED <<conf, run, rng, calls, external, model_inst, datasets, opt_inst,
                   scheduler_inst, training_loss_inst, loaders, model_ckpt_path,
                   driver, err>>

\* test.py, first pre-call: seed_everything(cfg.run.seed) if REPRODUCIBLE,
\* else the lambda evaluates to a function that nobody calls
PreCallSeed ==
    /\ pc = "pre_call_seed"
    /\ IF REPRODUCIBLE
       THEN /\ rng' = seed_everything(run.seed)
            /\ calls' = Append(calls, Call("seed_everything", None, <<>>, [seed |-> run.seed]))
       ELSE UNCHANGED <<rng, calls>>
    /\ pc' = "pre_call_set_test_mode"
    /\ UNCHANGED <<conf, run, external, model_inst, datasets, opt_inst, scheduler_inst,
                   training_loss_inst, loaders, model_ckpt_path, driver, err>>

\* test.py, second pre-call: set_test_mode
SetTestMode ==
    /\ pc = "pre_call_set_test_mode"
    /\ run' = [run EXCEPT !.training_mode = FALSE]
    /\ pc' = Stages(launcher)[1]
    /\ UNCHANGED <<conf, calls, rng, external, model_inst, datasets, opt_inst,
                   scheduler_inst, training_loss_inst, loaders, model_ckpt_path,
                   driver, err>>

MakeModel ==
    /\ pc = "make_model"
    /\ LET r == make_model(model, dataset)
       IN  /\ model_inst' = r.inst
           /\ calls' = calls \o r.calls
           /\ Continue(r.raised)
    /\ UNCHANGED <<conf, run, rng, external, datasets, opt_inst, scheduler_inst,
                   training_loss_inst, loaders, model_ckpt_path, driver>>

MakeDatasets ==
    /\ pc = "make_datasets"
    /\ \E outcomes \in [1..2 -> DatasetOutcomes] :
         LET r == make_datasets(run.training_mode, run.seed, dataset, outcomes)
         IN  /\ train_dataset' = r.ret[1]
             /\ val_dataset' = r.ret[2]
             /\ test_dataset' = r.ret[3]
             /\ calls' = calls \o r.calls
             /\ external' = external \cup r.mutated
             /\ Continue(r.raised)
    /\ UNCHANGED <<conf, run, rng, model_inst, opt_inst, scheduler_inst,
                   training_loss_inst, loaders, model_ckpt_path, driver>>

MakeOptimizer ==
    /\ pc = "make_optimizer"
    /\ LET r == make_optimizer(optimizer, model_inst)
       IN  /\ opt_inst' = r.inst
           /\ calls' = calls \o r.calls
    /\ Continue(NoError)
    /\ UNCHANGED <<conf, run, rng, external, model_inst, datasets, scheduler_inst,
                   training_loss_inst, loaders, model_ckpt_path, driver>>

MakeScheduler ==
    /\ pc = "make_scheduler"
    /\ LET r == make_scheduler(scheduler, opt_inst, run.epochs)
       IN  /\ scheduler_inst' = r.inst
           /\ calls' = calls \o r.calls
    /\ Continue(NoError)
    /\ UNCHANGED <<conf, run, rng, external, model_inst, datasets, opt_inst,
                   training_loss_inst, loaders, model_ckpt_path, driver>>

\* bootstrap: to_cuda_(parallelize_model(model_inst)); legacy: the wrapping only
ParallelizeModel ==
    /\ pc = "parallelize_model"
    /\ IF launcher = "bootstrap"
       THEN /\ model_inst' = to_cuda_(parallelize_model(model_inst, device_count), device_count)
            /\ calls' = calls \o <<Call("parallelize_model", model_inst, <<>>, <<>>),
                                   Call("to_cuda_", model_inst, <<>>, <<>>)>>
       ELSE /\ model_inst' = parallelize_model(model_inst, device_count)
            /\ calls' = Append(calls, Call("parallelize_model", model_inst, <<>>, <<>>))
    /\ Continue(NoError)
    /\ UNCHANGED <<conf, run, rng, external, datasets, opt_inst, scheduler_inst,
                   training_loss_inst, loaders, model_ckpt_path, driver>>

\* bootstrap: to_cuda_(make_training_loss(...)); legacy: the construction only
MakeTrainingLoss ==
    /\ pc = "make_training_loss"
    /\ LET r == make_training_loss(run.training_mode, training_loss)
       IN  IF launcher = "bootstrap"
           THEN /\ training_loss_inst' = to_cuda_(r.inst, device_count)
                /\ calls' = calls \o r.calls \o <<Call("to_cuda_", r.inst, <<>>, <<>>)>>
           ELSE /\ training_loss_inst' = r.inst
                /\ calls' = calls \o r.calls
    /\ Continue(NoError)
    /\ UNCHANGED <<conf, run, rng, external, model_inst, datasets, opt_inst,
                   scheduler_inst, loaders, model_ckpt_path, driver>>

\* legacy: the CUDA block, model then loss
ToCuda ==
    /\ pc = "to_cuda"
    /\ model_inst' = to_cuda_(model_inst, device_count)
    /\ training_loss_inst' = to_cuda_(training_loss_inst, device_count)
    /\ calls' = calls \o <<Call("to_cuda_", model_inst, <<>>, <<>>),
                           Call("to_cuda_", training_loss_inst, <<>>, <<>>)>>
    /\ Continue(NoError)
    /\ UNCHANGED <<conf, run, rng, external, datasets, opt_inst, scheduler_inst,
                   loaders, model_ckpt_path, driver>>

MakeDataloaders ==
    /\ pc = "make_dataloaders"
    /\ LET r == make_dataloaders(data_loader, train_dataset, val_dataset, test_dataset,
                                 run.training_mode, run.seed, REPRODUCIBLE)
       IN  /\ train_loader_inst' = r.ret[1]
           /\ val_loader_inst' = r.ret[2]
           /\ test_loader_inst' = r.ret[3]
           /\ calls' = calls \o r.calls
           /\ Continue(r.raised)
    /\ UNCHANGED <<conf, run, rng, external, model_inst, datasets, opt_inst,
                   scheduler_inst, training_loss_inst, model_ckpt_path, driver>>

\* init_wandb with the USE_WANDB test left out
InitWandbAlways ==
    /\ pc = "init_wandb"
    /\ external' = external \cup {"wandb_run"}
    /\ calls' = calls \o <<Call("wandb.init", None, <<>>, [name |-> run_name]),
                           Call("wandb.watch", model_inst, <<>>, <<>>)>>
    /\ Continue(NoError)
    /\ UNCHANGED <<conf, run, rng, model_inst, datasets, opt_inst, scheduler_inst,
                   training_loss_inst, loaders, model_ckpt_path, driver>>

\* wandb.init and wandb.watch when the tracker is switched on
InitWandb ==
    /\ pc = "init_wandb"
    /\ IF USE_WANDB
       THEN /\ external' = external \cup {"wandb_run"}
            /\ calls' = calls \o <<Call("wandb.init", None, <<>>, [name |-> run_name]),
                                   Call("wandb.watch", model_inst, <<>>, <<>>)>>
       ELSE UNCHANGED <<external, calls>>
    /\ Continue(NoError)
    /\ UNCHANGED <<conf, run, rng, model_inst, datasets, opt_inst, scheduler_inst,
                   training_loss_inst, loaders, model_ckpt_path, driver>>

\* bootstrap: utils.load_model_ckpt; legacy: the inline resolution
LoadModelCkpt ==
    /\ pc = "load_model_ckpt"
    /\ LET r == IF launcher = "bootstrap"
                THEN load_model_ckpt(files, run.load_from, run.training_mode)
                ELSE legacy_model_ckpt_path(files, run.load_from, run.training_mode)
       IN  /\ model_ckpt_path' = r.path
           /\ calls' = Append(calls, Call("load_model_ckpt", run.load_from, <<>>, <<>>))
           /\ Continue(r.raised)
    /\ UNCHANGED <<conf, run, rng, external, model_inst, datasets, opt_inst,
                   scheduler_inst, training_loss_inst, loaders, driver>>

\* dataclasses.asdict(run)
asdict(r) == r

\* the driver a constructor call and its entry-point call leave behind
Driver(kind, ctor_kw, entry_point, entry_kw) ==
    [kind |-> kind, kw |-> ctor_kw, entry_point |-> entry_point, entry_kw |-> entry_kw]

\* the "Training" block that ends launch_experiment: the checks, the trainer
\* or tester constructor, and its train or test entry point
run_driver(l, r, model_i, opt_i, scheduler_i, loss_i, train_l, val_l, test_l, ckpt) ==
    LET common_args == [run_name |-> run_name, model |-> model_i,
                        model_ckpt_path |-> ckpt, training_loss |-> loss_i]
        train_kw == [epochs |-> r.epochs, val_every |-> r.val_every,
                     visualize_every |-> r.viz_every,
                     visualize_train_every |-> r.viz_train_every,
                     visualize_n_samples |-> r.viz_num_samples]
        trainer_given ==
            IF l = "bootstrap"
            THEN Merge(Merge([train_loader |-> train_l, val_loader |-> val_l,
                              opt |-> opt_i, scheduler |-> scheduler_i], common_args),
                       asdict(r))
            ELSE Merge([run_name |-> run_name, model |-> model_i, opt |-> opt_i,
                        scheduler |-> scheduler_i, train_loader |-> train_l,
                        val_loader |-> val_l, training_loss |-> loss_i],
                       asdict(r))
        train_given ==
            IF l = "bootstrap" THEN train_kw
            ELSE Merge(train_kw, [model_ckpt_path |-> ckpt])
        tester_given ==
            IF l = "bootstrap"
            THEN Merge([data_loader |-> test_l], common_args)
            ELSE [run_name |-> run_name, model |-> model_i, data_loader |-> test_l,
                  model_ckpt_path |-> ckpt, training_loss |-> loss_i]
        test_given == Merge([visualize_every |-> r.viz_every], asdict(r))
    IN  IF r.training_mode
        THEN IF loss_i = None
             THEN [driver |-> None, calls |-> <<>>, raised |-> Error("ValueError", "run_driver")]
             ELSE IF val_l = None \/ train_l = None
             THEN [driver |-> None, calls |-> <<>>, raised |-> Error("ValueError", "run_driver")]
             ELSE [driver |-> Driver("trainer", Merge(trainer.keywords, trainer_given),
                                     "train", train_given),
                   calls |-> <<Call("trainer", None, trainer_given,
                                    Merge(trainer.keywords, trainer_given)),
                               Call("train", None, train_given, train_given)>>,
                   raised |-> NoError]
        ELSE IF test_l = None
             THEN [driver |-> None, calls |-> <<>>, raised |-> Error("ValueError", "run_driver")]
             ELSE [driver |-> Driver("tester", Merge(tester.keywords, tester_given),
                                     "test", test_given),
                   calls |-> <<Call("tester", None, tester_given,
                                    Merge(tester.keywords, tester_given)),
                               Call("test", None, test_given, test_given)>>,
                   raised |-> NoError]

RunDriver ==
    /\ pc = "run_driver"
    /\ LET r == run_driver(launcher, run, model_inst, opt_inst, scheduler_inst,
                           training_loss_inst, train_loader_inst, val_loader_inst,
                           test_loader_inst, model_ckpt_path)
       IN  /\ driver' = r.driver
           /\ calls' = calls \o r.calls
           /\ Continue(r.raised)
    /\ UNCHANGED <<conf, run, rng, external, model_inst, datasets, opt_inst,
                   scheduler_inst, training_loss_inst, loaders, model_ckpt_path>>

Next ==
    \/ PreCallSeed
    \/ SetTestMode
    \/ MakeModel
    \/ MakeDatasets
    \/ MakeOptimizer
    \/ MakeScheduler
    \/ ParallelizeModel
    \/ MakeTrainingLoss
    \/ ToCuda
    \/ MakeDataloaders
    \/ InitWandb
    \/ LoadModelCkpt
    \/ RunDriver

Spec == Init /\ [][Next]_vars

TypeOK == pc \in {"pre_call_seed", "pre_call_set_test_mode", "done", "aborted"}
                 \cup {Stages(launcher)[i] : i \in 1..Len(Stages(launcher))}

\* ------------------------------------------- the assemblers on their own
\* a dataset instance as the dataset constructor builds it
DatasetInstance(split, seed) ==
    DatasetCall([target |-> "Dataset", keywords |-> [dataset_root |-> "data",
                                                     dataset_name |-> "ds"]],
                [split |-> split, seed |-> seed], "ok").inst

FactoryDefaults ==
    /\ USE_WANDB = FALSE
    /\ device_count = 1
    /\ calls = <<>>
    /\ rng = [seeded |-> FALSE, seed |-> 0]
    /\ external = {}
    /\ model_inst = None
    /\ scheduler_inst = None /\ training_loss_inst = None
    /\ train_loader_inst = None /\ val_loader_inst = None /\ test_loader_inst = None
    /\ model_ckpt_path = None
    /\ driver = None
    /\ err = NoError

\* one assembler is called with arguments drawn from all it accepts
FactoryInit ==
    /\ \/ /\ pc \in {"make_model", "make_datasets"}
          /\ launcher = "bootstrap"
          /\ run \in RunConfigs({None})
          /\ dataset \in DatasetPartials(1..MaxDim, TRUE)
          /\ REPRODUCIBLE = FALSE
          /\ files \in FileSystems({{}}, {})
          /\ data_loader \in {[target |-> "DataLoader", keywords |-> [batch_size |-> 2]]}
          /\ scheduler \in {[target |-> "StepLR", keywords |-> [step_size |-> 1]]}
          /\ train_dataset = None /\ val_dataset = None /\ test_dataset = None
          /\ opt_inst = None
       \/ /\ pc = "make_dataloaders"
          /\ launcher = "bootstrap"
          /\ run \in RunConfigs({None})
          /\ dataset \in DatasetPartials({MaxDim}, FALSE)
          /\ REPRODUCIBLE \in BOOLEAN
          /\ files \in FileSystems({{}}, {})
          /\ data_loader \in LoaderPartials
          /\ scheduler \in {[target |-> "StepLR", keywords |-> [step_size |-> 1]]}
          /\ train_dataset \in {None, DatasetInstance("train", run.seed)}
          /\ val_dataset \in {None, DatasetInstance("val", run.seed)}
          /\ test_dataset \in {None, DatasetInstance("test", run.seed)}
          /\ opt_inst = None
       \/ /\ pc = "make_scheduler"
          /\ launcher = "bootstrap"
          /\ run \in RunConfigs({None})
          /\ dataset \in DatasetPartials({MaxDim}, FALSE)
          /\ REPRODUCIBLE = FALSE
          /\ files \in FileSystems({{}}, {})
          /\ data_loader \in {[target |-> "DataLoader", keywords |-> [batch_size |-> 2]]}
          /\ scheduler \in SchedulerPartials
          /\ train_dataset = None /\ val_dataset = None /\ test_dataset = None
          /\ opt_inst = make_optimizer(optimizer, make_model(model, dataset).inst).inst
       \/ /\ pc = "load_model_ckpt"
          /\ launcher \in {"bootstrap", "legacy"}
          /\ run \in RunConfigs(LoadFroms)
          /\ run.seed = 1 /\ run.epochs = 1
          /\ dataset \in DatasetPartials({MaxDim}, FALSE)
          /\ REPRODUCIBLE = FALSE
          /\ files \in FileSystems(SUBSET DirectFiles,
                                   {N \in SUBSET NamePool : Cardinality(N) <= MaxFiles})
          /\ data_loader \in {[target |-> "DataLoader", keywords |-> [batch_size |-> 2]]}
          /\ scheduler \in {[target |-> "StepLR", keywords |-> [step_size |-> 1]]}
          /\ train_dataset = None /\ val_dataset = None /\ test_dataset = None
          /\ opt_inst = None
    /\ entry = pc
    /\ FactoryDefaults

FactoryNext ==
    \/ MakeModel
    \/ MakeDatasets
    \/ MakeDataloaders
    \/ MakeScheduler
    \/ LoadModelCkpt

FactorySpec == FactoryInit /\ [][FactoryNext]_vars

\* ================================================================== claims
\* the calls made so far to one constructor or collaborator
CallsOf(op) == SelectSeq(calls, LAMBDA c : c.op = op)

StageIndex(st) == IndexOf(Stages(launcher), st)
IsStage(x) == \E i \in 1..Len(Stages(launcher)) : Stages(launcher)[i] = x

\* the statement st of the launch has been executed without raising
Passed(st) ==
    \/ pc = "done"
    \/ IsStage(pc) /\ StageIndex(pc) > StageIndex(st)
    \/ pc = "aborted" /\ IsStage(err.stage) /\ StageIndex(err.stage) > StageIndex(st)

\* the launch was ended by an exception raised in statement st
FailedAt(st) == pc = "aborted" /\ err.stage = st

Launch == entry \in {"test.py", "call"}

\* the spec's error classes, by the statement that raises
NotFoundError == {Error(t, "load_model_ckpt") : t \in {"ValueError", "FileNotFoundError", "NotFoundError"}}
PreconditionError == {Error("ValueError", "make_dataloaders"), Error("ValueError", "run_driver")}
ConfigurationError == {Error("AttributeError", "make_model")}

\* C1: in every launch the dataset assembly yields train and val and no test
\* in training mode, from exactly two constructor calls (split "train", then
\* split "val", both with the seed), and test alone in testing mode, from
\* exactly one call (split "test", augment false, seed); before the assembly
\* and when a constructor call raised, no dataset is held at all.
C1_DatasetShapes ==
    Launch =>
        IF Passed("make_datasets")
        THEN IF run.training_mode
             THEN /\ train_dataset # None /\ val_dataset # None /\ test_dataset = None
                  /\ Len(CallsOf("dataset")) = 2
                  /\ CallsOf("dataset")[1].given = [split |-> "train", seed |-> run.seed]
                  /\ CallsOf("dataset")[2].given = [split |-> "val", seed |-> run.seed]
                  /\ train_dataset.kw.split = "train"
                  /\ val_dataset.kw.split = "val"
             ELSE /\ train_dataset = None /\ val_dataset = None /\ test_dataset # None
                  /\ Len(CallsOf("dataset")) = 1
                  /\ CallsOf("dataset")[1].given =
                        [split |-> "test", augment |-> FALSE, seed |-> run.seed]
                  /\ test_dataset.kw.split = "test"
        ELSE train_dataset = None /\ val_dataset = None /\ test_dataset = None

C1_Witness ==
    /\ Launch /\ launcher = "legacy" /\ run.training_mode
    /\ pc = "make_optimizer"
    /\ train_dataset # None /\ val_dataset # None

\* the names a run directory holds, and those eligible in a mode
Present == { n \in NamePool : join(RunDir, n) \in files.files }
Eligible(training_mode) ==
    { n \in Present : /\ endswith(n, CKPT)
                      /\ (training_mode \/ SubSeq(n, 1, 4) # LAST) }
IsRunId(load_from) == load_from # None /\ ~endswith(load_from.s, CKPT)
Resolved == entry = "load_model_ckpt" /\ pc \in {"done", "aborted"}

\* C2: resolving a run identifier considers only the names of the run's
\* directory that end in ".ckpt", without those that start with "last" in
\* testing mode; it returns the greatest eligible name in lexicographic
\* order, and raises when no name is eligible.  {a, last, z}.ckpt gives
\* z.ckpt in both modes; {a, last}.ckpt gives a.ckpt in testing mode and
\* last.ckpt in training mode.
C2_RunIdResolution ==
    (Resolved /\ IsRunId(run.load_from)) =>
        /\ IF Eligible(run.training_mode) = {}
           THEN err \in NotFoundError /\ model_ckpt_path = None
           ELSE /\ err = NoError
                /\ \E g \in Eligible(run.training_mode) :
                     /\ \A o \in Eligible(run.training_mode) \ {g} : StrLess(o, g)
                     /\ model_ckpt_path = Str(join(RunDir, g))
        /\ (Present = {Name_a, Name_last, Name_z})
              => model_ckpt_path = Str(join(RunDir, Name_z))
        /\ (Present = {Name_a, Name_last})
              => model_ckpt_path =
                    Str(join(RunDir, IF run.training_mode THEN Name_last ELSE Name_a))

C2_Witness ==
    /\ Resolved /\ launcher = "legacy" /\ ~run.training_mode
    /\ IsRunId(run.load_from)
    /\ Present = {Name_a, Name_last}
    /\ model_ckpt_path = Str(join(RunDir, Name_a))

IsDirect(load_from) == load_from # None /\ endswith(load_from.s, CKPT)
\* the absolute form of a path, written out
AbsoluteForm(path) ==
    IF path[1] = 47 THEN path ELSE OriginalCwd \o SLASH \o path

\* what C3 says of the inline resolver of the legacy launcher, with the path
\* that a direct load_from is to resolve to left open
C3_Resolution(expected(_)) ==
    (Launch /\ launcher = "legacy") =>
        /\ (Passed("load_model_ckpt") /\ run.load_from = None) => model_ckpt_path = None
        /\ (Passed("load_model_ckpt") /\ IsDirect(run.load_from)) =>
              model_ckpt_path = expected(run.load_from)
        /\ (IsDirect(run.load_from) /\ AbsoluteForm(run.load_from.s) \notin files.files)
              => ~Passed("load_model_ckpt")
        /\ (IsDirect(run.load_from) /\ AbsoluteForm(run.load_from.s) \in files.files)
              => ~FailedAt("load_model_ckpt")
        /\ run.load_from = None => ~FailedAt("load_model_ckpt")
        /\ FailedAt("load_model_ckpt") =>
              /\ err \in NotFoundError
              /\ driver = None
              /\ CallsOf("trainer") = <<>> /\ CallsOf("tester") = <<>>
        /\ (Passed("load_model_ckpt") /\ run.load_from # None) =>
              /\ model_ckpt_path # None
              /\ model_ckpt_path.s \in files.files

SameAs(load_from) == load_from
AbsoluteOf(load_from) == Str(AbsoluteForm(load_from.s))

\* C3 as stated: a null load_from resolves to null; a direct path that exists
\* is returned unchanged and one that does not exist raises NotFoundError
\* with no driver built; every non-null result exists.
C3_DirectPathUnchanged == C3_Resolution(SameAs)

\* C3, amended: a null load_from resolves to null; a direct path is resolved
\* to its absolute form (itself when it is absolute, else the original
\* working directory joined with it), returned when that file exists and
\* NotFoundError raised with no driver built when it does not; every
\* non-null result exists.
C3_DirectPathAbsolute == C3_Resolution(AbsoluteOf)

C3_Witness ==
    /\ Launch /\ launcher = "legacy"
    /\ pc = "done"
    /\ run.load_from = Str(RelCkpt)
    /\ model_ckpt_path = Str(OriginalCwd \o SLASH \o RelCkpt)
    /\ driver # None

\* the assembler st was called on its own and has returned or raised
Called(st) == entry = st /\ pc \in {"done", "aborted"}

\* the shuffle / drop_last policy a loader partial carries: what it has bound,
\* else DataLoader's default
BoundPolicy(partial, name) ==
    IF name \in DOMAIN partial.keywords THEN partial.keywords[name] ELSE FALSE

\* C4: whatever shuffle / drop_last the loader partial has bound, the val
\* loader (training mode) and the test loader (testing mode) are constructed
\* with shuffle false and drop_last false, and the train loader is called with
\* no shuffle / drop_last argument and so gets the partial's own policy.
C4_LoaderPolicy ==
    (Called("make_dataloaders") /\ err = NoError) =>
        IF run.training_mode
        THEN /\ val_loader_inst.kw.shuffle = FALSE
             /\ val_loader_inst.kw.drop_last = FALSE
             /\ DOMAIN CallsOf("data_loader")[1].given = {"generator"}
             /\ train_loader_inst.kw.shuffle = BoundPolicy(data_loader, "shuffle")
             /\ train_loader_inst.kw.drop_last = BoundPolicy(data_loader, "drop_last")
             /\ train_loader_inst.dataset = train_dataset
             /\ val_loader_inst.dataset = val_dataset
        ELSE /\ test_loader_inst.kw.shuffle = FALSE
             /\ test_loader_inst.kw.drop_last = FALSE
             /\ test_loader_inst.dataset = test_dataset

C4_Witness ==
    /\ Called("make_dataloaders") /\ err = NoError /\ run.training_mode
    /\ BoundPolicy(data_loader, "shuffle") /\ BoundPolicy(data_loader, "drop_last")
    /\ train_loader_inst.kw.shuffle /\ ~val_loader_inst.kw.shuffle

\* the dataset that the active mode needs is missing
MissingDataset ==
    IF run.training_mode THEN train_dataset = None \/ val_dataset = None
    ELSE test_dataset = None

\* C5: make_dataloaders raises, with no loader constructor invoked and no
\* loader held, exactly when training mode is asked with a null train or val
\* dataset or testing mode with a null test dataset; a null dataset of the
\* other mode raises nothing.
C5_LoaderPrecondition ==
    Called("make_dataloaders") =>
        IF MissingDataset
        THEN /\ pc = "aborted"
             /\ err \in PreconditionError
             /\ CallsOf("data_loader") = <<>>
             /\ train_loader_inst = None /\ val_loader_inst = None
             /\ test_loader_inst = None
        ELSE pc = "done" /\ err = NoError

C5_Witness ==
    /\ Called("make_dataloaders") /\ pc = "aborted"
    /\ run.training_mode /\ train_dataset # None /\ val_dataset = None
    /\ test_dataset # None

\* C6: make_model calls the model constructor once, with encoder_input_dim
\* the square of the img_dim bound in the dataset partial, and never calls
\* the dataset constructor; when no img_dim is bound it raises and no model
\* is built.
C6_EncoderInputDim ==
    Called("make_model") =>
        IF "img_dim" \in DOMAIN dataset.keywords
        THEN /\ pc = "done"
             /\ Len(CallsOf("model")) = 1
             /\ CallsOf("model")[1].given =
                   [encoder_input_dim |-> dataset.keywords.img_dim * dataset.keywords.img_dim]
             /\ model_inst.kw.encoder_input_dim =
                   dataset.keywords.img_dim * dataset.keywords.img_dim
             /\ CallsOf("dataset") = <<>>
             /\ train_dataset = None /\ val_dataset = None /\ test_dataset = None
        ELSE /\ pc = "aborted"
             /\ err \in ConfigurationError
             /\ model_inst = None
             /\ CallsOf("model") = <<>>
             /\ CallsOf("dataset") = <<>>

C6_Witness ==
    /\ Called("make_model") /\ pc = "done"
    /\ dataset.keywords.img_dim = 3
    /\ model_inst.kw.encoder_input_dim = 9

CosineFamily == {"CosineAnnealingLR", "CosineAnnealingLRSubclass"}

\* C7: make_scheduler calls the scheduler constructor once, with the live
\* optimizer; a scheduler of the cosine-annealing family comes back with
\* T_max equal to run.epochs and its other fields as constructed, and a
\* scheduler of any other type with every field as constructed, so T_max is
\* overwritten for the cosine-annealing family and for nothing else.
C7_SchedulerPatch ==
    Called("make_scheduler") =>
        /\ pc = "done"
        /\ Len(CallsOf("scheduler")) = 1
        /\ opt_inst # None
        /\ CallsOf("scheduler")[1].pos = opt_inst
        /\ scheduler_inst.optimizer = opt_inst
        /\ scheduler_inst.type = scheduler.target
        /\ IF scheduler.target \in CosineFamily
           THEN /\ scheduler_inst.fields.T_max = run.epochs
                /\ \A f \in DOMAIN scheduler.keywords \ {"T_max"} :
                     scheduler_inst.fields[f] = scheduler.keywords[f]
                /\ DOMAIN scheduler_inst.fields = DOMAIN scheduler.keywords \cup {"T_max"}
           ELSE scheduler_inst.fields = scheduler.keywords

C7_Witness ==
    /\ Called("make_scheduler") /\ pc = "done"
    /\ scheduler.target = "CosineAnnealingLRSubclass"
    /\ scheduler.keywords.T_max # run.epochs
    /\ scheduler_inst.fields.T_max = run.epochs

\* the position in calls of the first call to op, 0 when there is none
First(op) ==
    IF \E i \in 1..Len(calls) : calls[i].op = op
    THEN CHOOSE i \in 1..Len(calls) :
            /\ calls[i].op = op
            /\ \A j \in 1..(i - 1) : calls[j].op # op
    ELSE 0

\* the position in calls of the last call to op, 0 when there is none
Last(op) ==
    IF \E i \in 1..Len(calls) : calls[i].op = op
    THEN CHOOSE i \in 1..Len(calls) :
            /\ calls[i].op = op
            /\ \A j \in (i + 1)..Len(calls) : calls[j].op # op
    ELSE 0

\* no call to b is made until every call to a has been made
Before(a, b) == First(b) # 0 => (Last(a) # 0 /\ Last(a) < First(b))

DriverCalls == CallsOf("trainer") \o CallsOf("tester")
EntryCalls == CallsOf("train") \o CallsOf("test")

\* C8: a launch builds and runs at most one driver, as its last step and
\* with no exception before it: in training mode the trainer, with non-null
\* train and val loaders, a non-null loss, the optimizer and the scheduler,
\* and train(epochs = run.epochs); in testing mode the tester, with a non-null
\* test loader and a null loss, the loss constructor never being called.  The
\* trainer gets no test loader and the tester no train or val loader; a
\* launch that raises holds no driver.
C8_OneDriver ==
    Launch =>
        /\ Len(DriverCalls) <= 1 /\ Len(EntryCalls) <= 1
        /\ Len(DriverCalls) = Len(EntryCalls)
        /\ (driver # None) <=> (Len(DriverCalls) = 1)
        /\ pc = "aborted" => driver = None
        /\ (IsStage(pc) /\ ~run.training_mode) => CallsOf("training_loss") = <<>>
        /\ driver # None =>
              /\ pc = "done" /\ err = NoError
              /\ calls[Len(calls)].op = driver.entry_point
              /\ calls[Len(calls) - 1].op = driver.kind
              /\ \A st \in {"make_model", "make_datasets", "make_optimizer",
                            "make_scheduler", "parallelize_model", "make_dataloaders",
                            "load_model_ckpt"} : Passed(st)
              /\ driver.kw.model = model_inst /\ model_inst # None
              /\ IF run.training_mode
                 THEN /\ driver.kind = "trainer" /\ driver.entry_point = "train"
                      /\ driver.kw.train_loader # None
                      /\ driver.kw.train_loader.dataset.kw.split = "train"
                      /\ driver.kw.val_loader # None
                      /\ driver.kw.val_loader.dataset.kw.split = "val"
                      /\ driver.kw.training_loss # None
                      /\ driver.kw.training_loss.kind = "loss"
                      /\ driver.kw.opt = opt_inst /\ opt_inst # None
                      /\ driver.kw.scheduler = scheduler_inst /\ scheduler_inst # None
                      /\ driver.entry_kw.epochs = run.epochs
                      /\ {"data_loader", "test_loader"} \cap DOMAIN driver.kw = {}
                 ELSE /\ driver.kind = "tester" /\ driver.entry_point = "test"
                      /\ driver.kw.data_loader # None
                      /\ driver.kw.data_loader.dataset.kw.split = "test"
                      /\ driver.kw.training_loss = None
                      /\ CallsOf("training_loss") = <<>>
                      /\ {"train_loader", "val_loader"} \cap DOMAIN driver.kw = {}

C8_Witness ==
    /\ Launch /\ pc = "done" /\ run.training_mode
    /\ driver # None /\ driver.kind = "trainer"
    /\ driver.kw.training_loss # None

\* the part of the stage order that C9 and its amendment share: optimizer,
\* then scheduler; loaders, then checkpoint resolution, then the driver and
\* its entry point
C9_CommonOrder ==
    /\ Before("optimizer", "scheduler")
    /\ Before("scheduler", "data_loader")
    /\ Before("data_loader", "load_model_ckpt")
    /\ Before("load_model_ckpt", "trainer") /\ Before("load_model_ckpt", "tester")
    /\ Before("trainer", "train") /\ Before("tester", "test")

C10_SeedFirst ==
    entry = "test.py" =>
        IF REPRODUCIBLE
        THEN (pc # "pre_call_seed") =>
                /\ Len(calls) >= 1
                /\ calls[1] = Call("seed_everything", None, <<>>, [seed |-> run.seed])
                /\ Len(CallsOf("seed_everything")) = 1
                /\ rng = [seeded |-> TRUE, seed |-> run.seed]
        ELSE /\ rng = [seeded |-> FALSE, seed |-> 0]
             /\ CallsOf("seed_everything") = <<>>
             /\ pc = "aborted" => IsStage(err.stage)

C10_Witness ==
    /\ entry = "test.py" /\ REPRODUCIBLE /\ pc = "done"
    /\ Len(calls) >= 1 /\ calls[1].op = "seed_everything"
    /\ First("dataset") > 1 /\ First("model") > 1 /\ First("data_loader") > 1

\* a dataset constructor call got as far as os.makedirs
MadeCacheDir ==
    \/ Passed("make_datasets")
    \/ FailedAt("make_datasets") /\ err.type = "ImportError"
    \/ FailedAt("make_datasets") /\ Len(CallsOf("dataset")) = 2

Constructors == {"dataset", "data_loader", "model", "trainer", "tester"}
BoundOf(op) ==
    IF op = "dataset" THEN dataset.keywords
    ELSE IF op = "data_loader" THEN data_loader.keywords
    ELSE IF op = "model" THEN model.keywords
    ELSE IF op = "trainer" THEN trainer.keywords
    ELSE tester.keywords
ConstructorCalls == { i \in 1..Len(calls) : calls[i].op \in Constructors }

\* C12 as stated: every constructor invocation supplies only names that the
\* constructor has not bound, so every bound value reaches the constructor.
C12_NoBoundOverwritten ==
    Launch =>
        \A i \in ConstructorCalls :
            /\ DOMAIN calls[i].given \cap DOMAIN BoundOf(calls[i].op) = {}
            /\ \A k \in DOMAIN BoundOf(calls[i].op) :
                 calls[i].kw[k] = BoundOf(calls[i].op)[k]

\* C12, as the code has it: an invocation supplies a fixed set of names
\* (dataset: split and seed, and augment for the test split; loader:
\* generator, and shuffle and drop_last for val and test; model:
\* encoder_input_dim); a bound argument whose name is supplied is replaced by
\* the invocation's value, so a bound shuffle or drop_last becomes false for
\* the val and test loaders and a bound augment becomes false for the test
\* dataset; a bound argument whose name is not supplied keeps its value.
C12_SuppliedReplacesBound ==
    Launch =>
        \A i \in ConstructorCalls :
            LET c == calls[i]
                bound == BoundOf(c.op)
            IN  /\ DOMAIN c.kw = DOMAIN bound \cup DOMAIN c.given
                /\ \A k \in DOMAIN c.given : c.kw[k] = c.given[k]
                /\ \A k \in DOMAIN bound \ DOMAIN c.given : c.kw[k] = bound[k]
                /\ c.op = "dataset" =>
                     DOMAIN c.given = IF c.given.split = "test"
                                      THEN {"split", "augment", "seed"}
                                      ELSE {"split", "seed"}
                /\ c.op = "data_loader" =>
                     DOMAIN c.given = IF c.pos.kw.split = "train"
                                      THEN {"generator"}
                                      ELSE {"generator", "shuffle", "drop_last"}
                /\ c.op = "model" => DOMAIN c.given = {"encoder_input_dim"}
                /\ (c.op = "data_loader" /\ c.pos.kw.split # "train") =>
                     ~c.kw.shuffle /\ ~c.kw.drop_last
                /\ (c.op = "dataset" /\ c.given.split = "test") => ~c.kw.augment

C12_Witness ==
    /\ Launch /\ pc = "done" /\ ~run.training_mode
    /\ "augment" \in DOMAIN dataset.keywords /\ dataset.keywords.augment
    /\ ~test_dataset.kw.augment
    /\ data_loader.keywords.shuffle
    /\ ~test_loader_inst.kw.shuffle

\* C13: one make_dataloaders call with REPRODUCIBLE on makes exactly one
\* generator, seeded with the seed, before any loader is built, and gives
\* that generator to every loader it builds; with REPRODUCIBLE off it makes
\* no generator and every loader is built with generator None.
C13_SharedGenerator ==
    Called("make_dataloaders") =>
        IF REPRODUCIBLE
        THEN /\ Len(CallsOf("torch.Generator")) = 1
             /\ calls[1].op = "torch.Generator"
             /\ calls[1].kw.seed = run.seed
             /\ \A i \in 1..Len(CallsOf("data_loader")) :
                  /\ CallsOf("data_loader")[i].given.generator = Generator(run.seed)
                  /\ CallsOf("data_loader")[i].kw.generator = Generator(run.seed)
             /\ \A l \in {train_loader_inst, val_loader_inst, test_loader_inst} \ {None} :
                  l.kw.generator = Generator(run.seed)
        ELSE /\ CallsOf("torch.Generator") = <<>>
             /\ \A i \in 1..Len(CallsOf("data_loader")) :
                  CallsOf("data_loader")[i].kw.generator = None
             /\ \A l \in {train_loader_inst, val_loader_inst, test_loader_inst} \ {None} :
                  l.kw.generator = None

C13_Witness ==
    /\ Called("make_dataloaders") /\ pc = "done"
    /\ REPRODUCIBLE /\ run.training_mode /\ run.seed = 2
    /\ train_loader_inst.kw.generator = val_loader_inst.kw.generator
    /\ train_loader_inst.kw.generator.seed = 2
    /\ Len(CallsOf("torch.Generator")) = 1

\* the value of a constructor keyword, or the default of ImageDataset.__init__
KeywordOf(d, name) == IF name \in DOMAIN d.kw THEN d.kw[name] ELSE FALSE

\* C14: every ImageDataset that make_datasets builds has its BaseDataset
\* state set from the arguments of the same names: _load gets the split and
\* the seed, the dataset name is dataset_name, normalization is on exactly
\* when normalize is true, and augmentation is on exactly when augment is true
\* and the split is "train".
C14_BaseStateFromSameNames ==
    Called("make_datasets") =>
        \A d \in {train_dataset, val_dataset, test_dataset} \ {None} :
            /\ PyEq(d.base.load.split, PyStr(d.kw.split))
            /\ PyEq(d.base.load.seed, PyInt(d.kw.seed))
            /\ PyEq(d.base.dataset_name, PyStr(d.kw.dataset_name))
            /\ PyEq(d.base.normalize, PyBool(KeywordOf(d, "normalize")))
            /\ Truthy(d.base.augment) <=>
                  (KeywordOf(d, "augment") /\ d.kw.split = "train")

\* what the constructor does instead: the positions shift the arguments, so
\* _load gets normalize for its split, the dataset name is the split,
\* normalization follows augment and augmentation is never on
C14_ShiftedArguments ==
    Called("make_datasets") =>
        \A d \in {train_dataset, val_dataset, test_dataset} \ {None} :
            /\ PyEq(d.base.load.split, PyBool(KeywordOf(d, "normalize")))
            /\ PyEq(d.base.dataset_name, PyStr(d.kw.split))
            /\ PyEq(d.base.normalize, PyBool(KeywordOf(d, "augment")))
            /\ ~Truthy(d.base.augment)

====
